---- MODULE Spec2Model ----
(***************************************************************************)
(* Shared Travel Planner (src/app/main.py, models.py, schemas.py).         *)
(* The backing store is a record of five tables; every table is the        *)
(* sequence of its rows in insertion order.  A request handler is an       *)
(* operator from (session, request) to a response and the session after    *)
(* its commits; an action applies one handler to the store.                *)
(***************************************************************************)
EXTENDS Integers, Sequences, FiniteSets, TLC

\* ---------------------------------------------------------------- inputs

\* EmailStr values a client may send.
Emails == {"alice@example.com", "bob@example.com", "carol@example.com"}

\* Passwords that pass UserCreate.password_length (at least 8 characters).
Passwords == {"password123", "correcthorse"}

\* The password of the users of the trip scenarios.
TripUserPassword == "password123"

\* UserCreate request bodies that pass validation.
UserCreate == [email : Emails, password : Passwords]

\* FlightCreate / HotelCreate bodies (all payload fields as one value).
FlightCreate == {"AF123"}
HotelCreate == {"Ritz"}

\* TripCreate bodies: a name, a list of flights and a list of hotels.
TripCreate ==
  [name : {"Paris"},
   flights : {<<>>} \cup {<<f>> : f \in FlightCreate},
   hotels : {<<>>} \cup {<<h>> : h \in HotelCreate}]

\* The most Trip, TripShare, Flight and Hotel rows the store holds in total.
MaxRows == 3

\* Request slots of the concurrently served requests.
Slots == {"r1", "r2"}

VARIABLES
  db,        \* the store: [users, trips, flights, hotels, shares]
  inflight,  \* per slot: the request being served between two store commits
  resp       \* the response of the request that completed last

vars == <<db, inflight, resp>>

\* ------------------------------------------------------------- the store

\* SQLModel.metadata.create_all on an empty database.
on_startup == [users |-> <<>>, trips |-> <<>>, flights |-> <<>>,
               hotels |-> <<>>, shares |-> <<>>]

Rows(session) ==
  Len(session.trips) + Len(session.flights) + Len(session.hotels)
    + Len(session.shares)

\* class User: autoincrement id, unique email.
User(session, email, hashed_password) ==
  [id |-> Len(session.users) + 1, email |-> email,
   hashed_password |-> hashed_password]

\* class Trip: autoincrement id.
Trip(session, name, owner_id) ==
  [id |-> Len(session.trips) + 1, name |-> name, owner_id |-> owner_id]

\* class TripShare: composite primary key (trip_id, user_id).
TripShare(trip_id, user_id) == [trip_id |-> trip_id, user_id |-> user_id]

\* INSERT INTO user: the unique index on email rejects a second row.
UserUnique(session, row) ==
  \A i \in DOMAIN session.users : session.users[i].email # row.email

\* INSERT INTO tripshare: the primary key rejects a second (trip, user) row.
TripSharePrimaryKey(session, row) ==
  \A i \in DOMAIN session.shares :
    ~(session.shares[i].trip_id = row.trip_id
      /\ session.shares[i].user_id = row.user_id)

\* Flight / Hotel rows appended for one trip, ids continuing the table's.
FlightRows(session, trip_id, bodies) ==
  [i \in 1..Len(bodies) |->
    [id |-> Len(session.flights) + i, trip_id |-> trip_id, data |-> bodies[i]]]

HotelRows(session, trip_id, bodies) ==
  [i \in 1..Len(bodies) |->
    [id |-> Len(session.hotels) + i, trip_id |-> trip_id, data |-> bodies[i]]]

\* --------------------------------------------------------------- queries

\* select(User).where(User.email == email)
UserByEmail(session, email) ==
  SelectSeq(session.users, LAMBDA r : r.email = email)

\* session.get(Trip, trip_id): the empty sequence stands for None.
GetTripRow(session, trip_id) ==
  SelectSeq(session.trips, LAMBDA r : r.id = trip_id)

_fetch_flights(session, trip_id) ==
  SelectSeq(session.flights, LAMBDA r : r.trip_id = trip_id)

_fetch_hotels(session, trip_id) ==
  SelectSeq(session.hotels, LAMBDA r : r.trip_id = trip_id)

_fetch_share_ids(session, trip_id) ==
  LET rows == SelectSeq(session.shares, LAMBDA r : r.trip_id = trip_id)
  IN  [i \in 1..Len(rows) |-> rows[i].user_id]

\* The WHERE clause without its trip_id condition.
_user_has_access_any_trip(session, user_id, trip_id) ==
  Len(SelectSeq(session.shares, LAMBDA r : r.user_id = user_id)) > 0

_user_has_access(session, user_id, trip_id) ==
  Len(SelectSeq(session.shares,
                LAMBDA r : r.trip_id = trip_id /\ r.user_id = user_id)) > 0

_trip_to_read(trip, fl, ho, shared_ids) ==
  [id |-> trip.id, name |-> trip.name, owner_id |-> trip.owner_id,
   flights |-> fl, hotels |-> ho, shared_with_user_ids |-> shared_ids]

TripReadOf(session, trip) ==
  _trip_to_read(trip, _fetch_flights(session, trip.id),
                _fetch_hotels(session, trip.id),
                _fetch_share_ids(session, trip.id))

\* ------------------------------------------------------------- responses

\* raise HTTPException(status_code): no commit, the session is as it was.
HTTPException(session, status_code) ==
  [status |-> status_code, body |-> <<>>, session |-> session]

\* A returned value, serialised with the route's status code.
Return(session, status_code, body) ==
  [status |-> status_code, body |-> body, session |-> session]

\* An exception no handler catches (sqlalchemy IntegrityError): the session
\* is rolled back and the framework answers 500.
InternalServerError(session) ==
  [status |-> 500, body |-> <<>>, session |-> session]

\* get_current_user: the bearer token resolves to a registered user's id.
CurrentUsers == 1..Len(db.users)

\* Trip ids a request may name: every existing id and one that does not exist.
TripIds == 1..(Len(db.trips) + 1)

\* -------------------------------------------------------------- handlers

\* get_password_hash (app/auth.py): a one-way hash of the password.
get_password_hash(password) == <<"hash", password>>

\* register, lines 35-40: hash, INSERT, commit, return UserRead.
register_commit(session, user_create) ==
  LET user == User(session, user_create.email,
                   get_password_hash(user_create.password))
  IN  IF UserUnique(session, user)
      THEN Return([session EXCEPT !.users = Append(@, user)], 201,
                  <<[id |-> user.id, email |-> user.email]>>)
      ELSE InternalServerError(session)

\* register without its lookup.
register_lookup_skipped(session, user_create) == FALSE

\* register, lines 31-33: is there a user with this email already?
register_lookup(session, user_create) ==
  Len(UserByEmail(session, user_create.email)) > 0

register(session, user_create) ==
  IF register_lookup(session, user_create)
  THEN HTTPException(session, 400)
  ELSE register_commit(session, user_create)

\* create_trip, lines 55-63: INSERT the Trip row and commit.
create_trip_commit_trip(session, current_user, trip_create) ==
  [session EXCEPT
    !.trips = Append(@, Trip(session, trip_create.name, current_user))]

\* create_trip, lines 65-89: INSERT the flights and hotels, commit, and
\* return the rows just built with an empty share list.
create_trip_commit_items(session, trip, trip_create) ==
  LET fl == FlightRows(session, trip.id, trip_create.flights)
      ho == HotelRows(session, trip.id, trip_create.hotels)
  IN  Return([session EXCEPT !.flights = @ \o fl, !.hotels = @ \o ho], 201,
             <<_trip_to_read(trip, fl, ho, <<>>)>>)

create_trip(session, current_user, trip_create) ==
  LET s1 == create_trip_commit_trip(session, current_user, trip_create)
  IN  create_trip_commit_items(s1, s1.trips[Len(s1.trips)], trip_create)

\* list_trips with the shared trips appended unfiltered.
list_trips_no_dedupe(session, current_user) ==
  LET owned_trips ==
        SelectSeq(session.trips, LAMBDA r : r.owner_id = current_user)
      share_rows ==
        SelectSeq(session.shares, LAMBDA r : r.user_id = current_user)
      shared_trip_ids == {share_rows[i].trip_id : i \in DOMAIN share_rows}
      shared_trips ==
        SelectSeq(session.trips, LAMBDA r : r.id \in shared_trip_ids)
      trips == owned_trips \o shared_trips
  IN  Return(session, 200,
             [i \in 1..Len(trips) |-> TripReadOf(session, trips[i])])

list_trips(session, current_user) ==
  LET owned_trips ==
        SelectSeq(session.trips, LAMBDA r : r.owner_id = current_user)
      share_rows ==
        SelectSeq(session.shares, LAMBDA r : r.user_id = current_user)
      shared_trip_ids == {share_rows[i].trip_id : i \in DOMAIN share_rows}
      shared_trips ==
        IF Len(share_rows) > 0
        THEN SelectSeq(session.trips, LAMBDA r : r.id \in shared_trip_ids)
        ELSE <<>>
      trips ==
        owned_trips \o
          SelectSeq(shared_trips,
                    LAMBDA t : ~(\E i \in DOMAIN owned_trips :
                                   owned_trips[i] = t))
  IN  Return(session, 200,
             [i \in 1..Len(trips) |-> TripReadOf(session, trips[i])])

get_trip(session, current_user, trip_id) ==
  LET trip == GetTripRow(session, trip_id)
  IN  IF Len(trip) = 0 THEN HTTPException(session, 404)
      ELSE IF trip[1].owner_id # current_user
              /\ ~_user_has_access(session, current_user, trip_id)
      THEN HTTPException(session, 403)
      ELSE Return(session, 200, <<TripReadOf(session, trip[1])>>)

\* share_trip, line 122: only the owner passes.
share_trip_forbidden_never(trip, current_user) == FALSE

share_trip_forbidden(trip, current_user) == trip.owner_id # current_user

\* share_trip, line 128: the target is the requester.
share_trip_self_never(target_user, current_user) == FALSE

share_trip_self(target_user, current_user) == target_user.id = current_user

\* share_trip, lines 131-133: the share row of (trip, target), if any.
existing_share_skipped(session, trip_id, user_id) == <<>>

existing_share(session, trip_id, user_id) ==
  SelectSeq(session.shares,
            LAMBDA r : r.trip_id = trip_id /\ r.user_id = user_id)

share_trip(session, current_user, trip_id, share_request) ==
  LET trip == GetTripRow(session, trip_id)
      target_user == UserByEmail(session, share_request)
  IN  IF Len(trip) = 0 THEN HTTPException(session, 404)
      ELSE IF share_trip_forbidden(trip[1], current_user)
      THEN HTTPException(session, 403)
      ELSE IF Len(target_user) = 0 THEN HTTPException(session, 404)
      ELSE IF share_trip_self(target_user[1], current_user)
      THEN HTTPException(session, 400)
      ELSE IF Len(existing_share(session, trip_id, target_user[1].id)) > 0
      THEN Return(session, 204, <<>>)
      ELSE LET share == TripShare(trip_id, target_user[1].id)
           IN  IF TripSharePrimaryKey(session, share)
               THEN Return([session EXCEPT !.shares = Append(@, share)],
                           204, <<>>)
               ELSE InternalServerError(session)

\* The access check made before the existence check.
_ensure_trip_access_auth_first(session, user_id, trip_id) ==
  LET trip == GetTripRow(session, trip_id)
  IN  IF (Len(trip) = 0 \/ trip[1].owner_id # user_id)
         /\ ~_user_has_access(session, user_id, trip_id)
      THEN 403
      ELSE IF Len(trip) = 0 THEN 404
      ELSE 0

\* The access check without the share lookup.
_ensure_trip_access_owner_only(session, user_id, trip_id) ==
  LET trip == GetTripRow(session, trip_id)
  IN  IF Len(trip) = 0 THEN 404
      ELSE IF trip[1].owner_id # user_id THEN 403
      ELSE 0

\* The status of the HTTPException raised, or 0 when it returns None.
_ensure_trip_access(session, user_id, trip_id) ==
  LET trip == GetTripRow(session, trip_id)
  IN  IF Len(trip) = 0 THEN 404
      ELSE IF trip[1].owner_id # user_id
              /\ ~_user_has_access(session, user_id, trip_id)
      THEN 403
      ELSE 0

add_flight(session, current_user, trip_id, flight) ==
  LET raised == _ensure_trip_access(session, current_user, trip_id)
      s1 == [session EXCEPT
              !.flights = @ \o FlightRows(session, trip_id, <<flight>>)]
  IN  IF raised # 0 THEN HTTPException(session, raised)
      ELSE Return(s1, 200, <<TripReadOf(s1, GetTripRow(s1, trip_id)[1])>>)

add_hotel(session, current_user, trip_id, hotel) ==
  LET raised == _ensure_trip_access(session, current_user, trip_id)
      s1 == [session EXCEPT
              !.hotels = @ \o HotelRows(session, trip_id, <<hotel>>)]
  IN  IF raised # 0 THEN HTTPException(session, raised)
      ELSE Return(s1, 200, <<TripReadOf(s1, GetTripRow(s1, trip_id)[1])>>)

\* --------------------------------------------------------------- actions

Idle == [pc |-> "idle"]

NoResponse == [op |-> "none", status |-> 0, body |-> <<>>]

\* One request served from start to end with no other request in between.
Serve(op, r) ==
  /\ Rows(r.session) <= MaxRows
  /\ db' = r.session
  /\ resp' = [op |-> op, status |-> r.status, body |-> r.body]
  /\ UNCHANGED inflight

Register(user_create) == Serve("register", register(db, user_create))

CreateTrip(u, trip_create) ==
  /\ u \in CurrentUsers
  /\ Serve("create_trip", create_trip(db, u, trip_create))

ListTrips(u) ==
  /\ u \in CurrentUsers
  /\ Serve("list_trips", list_trips(db, u))

GetTrip(u, t) ==
  /\ u \in CurrentUsers
  /\ Serve("get_trip", get_trip(db, u, t))

ShareTrip(u, t, email) ==
  /\ u \in CurrentUsers
  /\ Serve("share_trip", share_trip(db, u, t, email))

AddFlight(u, t, flight) ==
  /\ u \in CurrentUsers
  /\ Serve("add_flight", add_flight(db, u, t, flight))

AddHotel(u, t, hotel) ==
  /\ u \in CurrentUsers
  /\ Serve("add_hotel", add_hotel(db, u, t, hotel))

Init ==
  /\ db = on_startup
  /\ inflight = [p \in Slots |-> Idle]
  /\ resp = NoResponse

\* A client registering with the usual password.
RegisterUser(email) ==
  Register([email |-> email, password |-> TripUserPassword])

Next ==
  \/ \E e \in Emails : RegisterUser(e)
  \/ \E u \in CurrentUsers, tc \in TripCreate : CreateTrip(u, tc)
  \/ \E u \in CurrentUsers : ListTrips(u)
  \/ \E u \in CurrentUsers, t \in TripIds : GetTrip(u, t)
  \/ \E u \in CurrentUsers, t \in TripIds, e \in Emails : ShareTrip(u, t, e)
  \/ \E u \in CurrentUsers, t \in TripIds, f \in FlightCreate :
       AddFlight(u, t, f)
  \/ \E u \in CurrentUsers, t \in TripIds, h \in HotelCreate :
       AddHotel(u, t, h)

\* Requests served one after another.
Spec == Init /\ [][Next]_vars

\* ------------------------------------------------- the credential store

NextAuth == \E uc \in UserCreate : Register(uc)

\* Registrations only, served one after another, with any valid password.
SpecAuth == Init /\ [][NextAuth]_vars

\* ---------------------------------------------------- concurrent requests

\* Rows an in-flight create_trip has still to insert.
Pending(p) ==
  IF inflight[p].pc = "create_trip"
  THEN Len(inflight[p].trip_create.flights)
         + Len(inflight[p].trip_create.hotels)
  ELSE 0

RECURSIVE PendingRows(_)
PendingRows(S) ==
  IF S = {} THEN 0
  ELSE LET p == CHOOSE q \in S : TRUE
       IN  Pending(p) + PendingRows(S \ {p})

Respond(op, r) ==
  /\ db' = r.session
  /\ resp' = [op |-> op, status |-> r.status, body |-> r.body]

\* register up to its lookup (lines 31-33): answer 400, or go on to insert.
RegisterLookup(p, user_create) ==
  /\ inflight[p] = Idle
  /\ IF register_lookup(db, user_create)
     THEN /\ Respond("register", HTTPException(db, 400))
          /\ UNCHANGED inflight
     ELSE /\ inflight' = [inflight EXCEPT
                 ![p] = [pc |-> "register", user_create |-> user_create]]
          /\ UNCHANGED <<db, resp>>

\* register from its insert on (lines 35-40), on the store as it is now.
RegisterCommit(p) ==
  /\ inflight[p].pc = "register"
  /\ Respond("register", register_commit(db, inflight[p].user_create))
  /\ inflight' = [inflight EXCEPT ![p] = Idle]

\* create_trip up to its first commit (lines 55-63).
CreateTripCommitTrip(p, u, trip_create) ==
  /\ inflight[p] = Idle
  /\ u \in CurrentUsers
  /\ Rows(db) + PendingRows(Slots) + 1 + Len(trip_create.flights)
       + Len(trip_create.hotels) <= MaxRows
  /\ db' = create_trip_commit_trip(db, u, trip_create)
  /\ inflight' = [inflight EXCEPT
        ![p] = [pc |-> "create_trip", trip |-> db'.trips[Len(db'.trips)],
                trip_create |-> trip_create]]
  /\ UNCHANGED resp

\* create_trip from its first commit to its return (lines 65-89).
CreateTripCommitItems(p) ==
  /\ inflight[p].pc = "create_trip"
  /\ Respond("create_trip",
             create_trip_commit_items(db, inflight[p].trip,
                                      inflight[p].trip_create))
  /\ inflight' = [inflight EXCEPT ![p] = Idle]

NextConc ==
  \/ \E p \in Slots, e \in Emails :
       RegisterLookup(p, [email |-> e, password |-> TripUserPassword])
  \/ \E p \in Slots : RegisterCommit(p)
  \/ \E p \in Slots, u \in CurrentUsers, tc \in TripCreate :
       CreateTripCommitTrip(p, u, tc)
  \/ \E p \in Slots : CreateTripCommitItems(p)
  \/ \E u \in CurrentUsers : ListTrips(u)
  \/ \E u \in CurrentUsers, t \in TripIds : GetTrip(u, t)

\* Requests served concurrently: each store commit is one step, and the
\* steps of different requests interleave.
SpecConc == Init /\ [][NextConc]_vars

\* --------------------------------------- any store the schema allows

\* Every foreign key names an existing row, emails are unique, and there is
\* at most one share row per (trip, user); a trip's owner may be among its
\* share targets.
Injective(f) == \A i, j \in DOMAIN f : i # j => f[i] # f[j]

SeqsUpTo(S, n) == UNION {[1..k -> S] : k \in 0..n}

StoreOf(emails, owners, pairs) ==
  [users |-> [i \in DOMAIN emails |->
                [id |-> i, email |-> emails[i],
                 hashed_password |-> get_password_hash(TripUserPassword)]],
   trips |-> [i \in DOMAIN owners |->
                [id |-> i, name |-> "Paris", owner_id |-> owners[i]]],
   flights |-> <<>>,
   hotels |-> <<>>,
   shares |-> [i \in DOMAIN pairs |-> TripShare(pairs[i][1], pairs[i][2])]]

AnyStore ==
  UNION {UNION {{StoreOf(emails, owners, pairs) :
                   pairs \in {sh \in SeqsUpTo((1..Len(owners))
                                                \X (1..Len(emails)),
                                              MaxRows - Len(owners)) :
                                Injective(sh)}} :
                  owners \in SeqsUpTo(1..Len(emails), MaxRows)} :
           emails \in {e \in SeqsUpTo(Emails, Cardinality(Emails)) :
                         Injective(e)}}

InitAny ==
  /\ db \in AnyStore
  /\ inflight = [p \in Slots |-> Idle]
  /\ resp = NoResponse

\* Requests served one after another, starting from any such store.
SpecAny == InitAny /\ [][Next]_vars

\* ---------------------------------------------------------- properties

TripExists(t) == \E i \in DOMAIN db.trips : db.trips[i].id = t

OwnerOf(t) == (CHOOSE r \in {db.trips[i] : i \in DOMAIN db.trips} : r.id = t).owner_id

ShareRowExists(t, u) ==
  \E i \in DOMAIN db.shares :
    db.shares[i].trip_id = t /\ db.shares[i].user_id = u

ShareRowCount(session, t, u) ==
  Cardinality({i \in DOMAIN session.shares :
                 session.shares[i].trip_id = t
                 /\ session.shares[i].user_id = u})

Registered(email) == \E i \in DOMAIN db.users : db.users[i].email = email

UserIdOf(email) ==
  (CHOOSE r \in {db.users[i] : i \in DOMAIN db.users} : r.email = email).id

\* C1: for every existing trip T and authenticated user U, get_trip answers
\* 200 exactly when U owns T or a TripShare row (T, U) exists, and 403 for
\* every other user.
C1_GetTripIffOwnerOrShared ==
  \A u \in CurrentUsers, t \in TripIds :
    TripExists(t) =>
      get_trip(db, u, t).status =
        IF OwnerOf(t) = u \/ ShareRowExists(t, u) THEN 200 ELSE 403

\* C1 witness: with three users and a shared trip, a get_trip was refused.
C1_Witness ==
  /\ resp.op = "get_trip" /\ resp.status = 403
  /\ Len(db.users) = 3 /\ Len(db.shares) >= 1

\* C2: get_trip, share_trip, add_flight and add_hotel answer 404 for a trip
\* id that does not exist, for every authenticated user; they answer 403 only
\* for a trip that exists.
C2_NotFoundBeforeForbidden ==
  \A u \in CurrentUsers, t \in TripIds \cup {0} :
    LET statuses ==
          {get_trip(db, u, t).status}
            \cup {share_trip(db, u, t, e).status : e \in Emails}
            \cup {add_flight(db, u, t, f).status : f \in FlightCreate}
            \cup {add_hotel(db, u, t, h).status : h \in HotelCreate}
    IN  /\ ~TripExists(t) => statuses = {404}
        /\ 403 \in statuses => TripExists(t)

\* C2 witness: a user with access to no trip asked to add a hotel to a trip
\* id that does not exist while another trip does.
C2_Witness ==
  /\ resp.op = "add_hotel" /\ resp.status = 404
  /\ Len(db.trips) >= 1 /\ Len(db.shares) = 0 /\ Len(db.users) >= 2

\* C3: share_trip on an existing trip by a user who is not its owner, shared
\* viewers included, answers 403 and leaves the TripShare rows as they were;
\* a request changes the TripShare rows only when it is a share_trip of the
\* trip's owner, which appends the one row for that trip.
C3_OnlyOwnerShares ==
  /\ \A u \in CurrentUsers, t \in TripIds, e \in Emails :
       LET r == share_trip(db, u, t, e)
       IN  /\ (TripExists(t) /\ OwnerOf(t) # u) =>
                 r.status = 403 /\ r.session.shares = db.shares
           /\ r.session.shares # db.shares =>
                 /\ TripExists(t) /\ OwnerOf(t) = u /\ Registered(e)
                 /\ r.session.shares
                      = Append(db.shares, TripShare(t, UserIdOf(e)))
  /\ \A e \in Emails :
       register(db, [email |-> e, password |-> TripUserPassword])
         .session.shares = db.shares
  /\ \A u \in CurrentUsers :
       /\ \A tc \in TripCreate :
            create_trip(db, u, tc).session.shares = db.shares
       /\ \A t \in TripIds :
            /\ \A f \in FlightCreate :
                 add_flight(db, u, t, f).session.shares = db.shares
            /\ \A h \in HotelCreate :
                 add_hotel(db, u, t, h).session.shares = db.shares

\* C3 witness: the one trip is shared with the one other user, and a
\* share_trip was refused with 403.
C3_Witness ==
  /\ resp.op = "share_trip" /\ resp.status = 403
  /\ Len(db.users) = 2 /\ Len(db.trips) = 1 /\ Len(db.shares) = 1

\* C4: there is at most one TripShare row per (trip, user); and when the
\* owner's share_trip for a registered user has succeeded, the same request
\* again answers 204, leaves the TripShare rows as the first call left them,
\* and exactly one row exists for the pair.
C4_ShareTwiceIdempotent ==
  /\ \A i, j \in DOMAIN db.shares : i # j => db.shares[i] # db.shares[j]
  /\ \A t \in TripIds, e \in Emails :
       TripExists(t) =>
         LET first == share_trip(db, OwnerOf(t), t, e)
             second == share_trip(first.session, OwnerOf(t), t, e)
         IN  first.status = 204 =>
               /\ second.status = 204
               /\ second.session.shares = first.session.shares
               /\ ShareRowCount(second.session, t, UserIdOf(e)) = 1

\* C4 witness: a share_trip answered 204 and the trip has its share row.
C4_Witness ==
  /\ resp.op = "share_trip" /\ resp.status = 204
  /\ Len(db.shares) = 1 /\ Len(db.trips) = 1

\* C5: share_trip on an existing trip naming the requester's own email
\* fails with a 4xx status, owner or not, and adds no TripShare row; no
\* TripShare row names the owner of its trip.
C5_NoSelfShare ==
  /\ \A u \in CurrentUsers, t \in TripIds :
       TripExists(t) =>
         LET r == share_trip(db, u, t, db.users[u].email)
         IN  /\ r.status \in 400..499
             /\ r.session.shares = db.shares
  /\ \A i \in DOMAIN db.shares :
       OwnerOf(db.shares[i].trip_id) # db.shares[i].user_id

\* C5 witness: a share_trip was refused with 400.
C5_Witness == resp.op = "share_trip" /\ resp.status = 400

\* C6: register for an email that is already registered answers 400 and
\* leaves the User table as it was; no two User rows have the same email.
C6_RegisterTwiceConflict ==
  /\ \A uc \in UserCreate :
       Registered(uc.email) =>
         LET r == register(db, uc)
         IN  r.status = 400 /\ r.session.users = db.users
  /\ \A i, j \in DOMAIN db.users :
       i # j => db.users[i].email # db.users[j].email

\* C6 witness: a register was refused with 400 while a user registered with
\* the other password is in the table.
C6_Witness ==
  /\ resp.op = "register" /\ resp.status = 400
  /\ Len(db.users) = 1
  /\ db.users[1].hashed_password = get_password_hash("correcthorse")

\* C7: of two concurrent register requests with the same email, the one
\* that does not create the User row is answered 400 (Conflict): a register
\* is answered 201 or 400 and nothing else.
C7_LoserSurfacesAsConflict ==
  resp.op = "register" => resp.status \in {201, 400}

TripIdsOf(body) == [i \in DOMAIN body |-> body[i].id]

\* C8: list_trips returns exactly the trips the user owns together with the
\* trips shared with the user, each trip id once, also when the user is
\* owner and share target of the same trip.
C8_ListTripsOwnedAndSharedOnce ==
  \A u \in CurrentUsers :
    LET r == list_trips(db, u)
        ids == TripIdsOf(r.body)
    IN  /\ r.status = 200
        /\ {ids[i] : i \in DOMAIN ids}
             = {t \in TripIds :
                  TripExists(t) /\ (OwnerOf(t) = u \/ ShareRowExists(t, u))}
        /\ Injective(ids)
        /\ \A i \in DOMAIN r.body :
             r.body[i] = get_trip(db, u, ids[i]).body[1]

\* C8 witness: the only user owns the only trip and is its share target,
\* and list_trips returned one trip.
C8_Witness ==
  /\ resp.op = "list_trips" /\ Len(resp.body) = 1
  /\ Len(db.users) = 1 /\ Len(db.trips) = 1
  /\ ShareRowExists(1, 1) /\ OwnerOf(1) = 1

\* C9: for every existing trip and authenticated user, add_flight and
\* add_hotel answer 200 and append their row to the trip exactly when
\* get_trip by that user answers 200; otherwise they answer 403 and add
\* no row.
C9_ModifyIffView ==
  \A u \in CurrentUsers, t \in TripIds :
    TripExists(t) =>
      LET view == get_trip(db, u, t).status = 200
      IN  /\ \A f \in FlightCreate :
               LET r == add_flight(db, u, t, f)
               IN  IF view
                   THEN /\ r.status = 200
                        /\ r.session =
                             [db EXCEPT !.flights =
                                Append(@, [id |-> Len(db.flights) + 1,
                                           trip_id |-> t, data |-> f])]
                        /\ r.body[1].flights
                             = Append(get_trip(db, u, t).body[1].flights,
                                      [id |-> Len(db.flights) + 1,
                                       trip_id |-> t, data |-> f])
                   ELSE r.status = 403 /\ r.session = db
          /\ \A h \in HotelCreate :
               LET r == add_hotel(db, u, t, h)
               IN  IF view
                   THEN /\ r.status = 200
                        /\ r.session =
                             [db EXCEPT !.hotels =
                                Append(@, [id |-> Len(db.hotels) + 1,
                                           trip_id |-> t, data |-> h])]
                        /\ r.body[1].hotels
                             = Append(get_trip(db, u, t).body[1].hotels,
                                      [id |-> Len(db.hotels) + 1,
                                       trip_id |-> t, data |-> h])
                   ELSE r.status = 403 /\ r.session = db

\* C9 witness: add_flight answered 200 for a trip that is shared with one
\* user and now has its one flight.
C9_Witness ==
  /\ resp.op = "add_flight" /\ resp.status = 200
  /\ Len(resp.body[1].shared_with_user_ids) = 1
  /\ Len(resp.body[1].flights) = 1

Payloads(rows) == [i \in DOMAIN rows |-> rows[i].data]

\* C10: create_trip is one unit of work: no list_trips or get_trip response
\* shows a trip whose create_trip request is still being served with flights
\* or hotels other than those of the request body.
C10_CreateTripIsOneUnitOfWork ==
  resp.op \in {"list_trips", "get_trip"} =>
    \A i \in DOMAIN resp.body, p \in Slots :
      (inflight[p].pc = "create_trip"
       /\ inflight[p].trip.id = resp.body[i].id) =>
        /\ Payloads(resp.body[i].flights) = inflight[p].trip_create.flights
        /\ Payloads(resp.body[i].hotels) = inflight[p].trip_create.hotels

====
